---- MODULE Spec2Model ----
(***************************************************************************)
(* Model of calcium_imaging.py: the dF/F batch script.  The script is one  *)
(* sequential run over a directory: classify the files by name, load the   *)
(* control baseline and the UV reference, normalise every recording, scan  *)
(* the csv files for the plotting range, plot every csv file.              *)
(*                                                                         *)
(* File names are sequences of one-character strings.  Numbers are pairs   *)
(* <<n, d>>: a rational n/d in lowest terms with d > 0, or one of the      *)
(* three non-finite floating-point values, d = 0 (<<1,0>> = +inf,          *)
(* <<-1,0>> = -inf, <<0,0>> = nan).  Rounding of finite values is not      *)
(* modelled.  The script is Python 2: names are byte strings, and the      *)
(* order of listdir and os.walk is arbitrary.                              *)
(***************************************************************************)
EXTENDS Integers, Sequences, FiniteSets, TLC

\* ------------------------------------------------------------------------
\* Bounds of the model
\* ------------------------------------------------------------------------

\* Largest number of files in the input directory tree.
MaxFiles == 4

\* ------------------------------------------------------------------------
\* Python string operations on names
\* ------------------------------------------------------------------------

\* t in s
Contains(s, t) ==
    \E p \in 1..(Len(s) - Len(t) + 1) : SubSeq(s, p, p + Len(t) - 1) = t

\* The 0-based positions at which t occurs in s.
Occurrences(s, t) ==
    {p \in 0..(Len(s) - Len(t)) : SubSeq(s, p + 1, p + Len(t)) = t}

SetMin(S) == CHOOSE x \in S : \A y \in S : x <= y
SetMax(S) == CHOOSE x \in S : \A y \in S : x >= y

\* s.find(t): the lowest position, -1 when t does not occur.
Find(s, t) == IF Occurrences(s, t) = {} THEN -1 ELSE SetMin(Occurrences(s, t))

\* s.rfind(t): the highest position, -1 when t does not occur.
RFind(s, t) == IF Occurrences(s, t) = {} THEN -1 ELSE SetMax(Occurrences(s, t))

\* A slice index as Python clamps it: a negative index counts from the end.
ClampIndex(s, k) ==
    LET k1 == IF k < 0 THEN k + Len(s) ELSE k
    IN  IF k1 < 0 THEN 0 ELSE IF k1 > Len(s) THEN Len(s) ELSE k1

\* s[a:b]
Slice(s, a, b) == SubSeq(s, ClampIndex(s, a) + 1, ClampIndex(s, b))

\* s.endswith(t)
EndsWith(s, t) == Len(s) >= Len(t) /\ SubSeq(s, Len(s) - Len(t) + 1, Len(s)) = t

\* ------------------------------------------------------------------------
\* The tokens the script looks for
\* ------------------------------------------------------------------------

TXT        == <<".", "t", "x", "t">>
CSV        == <<".", "c", "s", "v">>
PNG        == <<".", "p", "n", "g">>
DT         == <<"d", "t", "_">>
UDT        == <<"_", "d", "t">>
VALUES     == <<"V", "a", "l", "u", "e", "s">>
OSX        == <<".", "_">>
NORMALIZED == <<"N", "o", "r", "m", "a", "l", "i", "z", "e", "d", "_",
                "N", "e", "u", "r", "o", "n", ".">>
CONTROL    == <<"c", "o", "n", "t", "r", "o", "l">>
UVTOKEN    == <<"U", "V">>
UVCSV      == <<"U", "V", ".", "c", "s", "v">>

\* ------------------------------------------------------------------------
\* The regular expression of the rate and float()
\* ------------------------------------------------------------------------

Digits == {"0", "1", "2", "3", "4", "5", "6", "7", "8", "9"}
Signs  == {"-", "+"}

DigitValue(c) ==
    CASE c = "0" -> 0 [] c = "1" -> 1 [] c = "2" -> 2 [] c = "3" -> 3
      [] c = "4" -> 4 [] c = "5" -> 5 [] c = "6" -> 6 [] c = "7" -> 7
      [] c = "8" -> 8 [] c = "9" -> 9

\* The 1-based position after the longest run of digits that starts at p.
RECURSIVE DigitsEnd(_, _)
DigitsEnd(s, p) ==
    IF p <= Len(s) /\ s[p] \in Digits THEN DigitsEnd(s, p + 1) ELSE p

\* The position after an optional character of the set cs at p.
Optional(s, p, cs) == IF p <= Len(s) /\ s[p] \in cs THEN p + 1 ELSE p

\* The positions at which [-+]?\d+ can start.
MatchStarts(s) ==
    {p \in 1..Len(s) :
        \/ s[p] \in Digits
        \/ s[p] \in Signs /\ p < Len(s) /\ s[p + 1] \in Digits}

\* The pieces of the leftmost match of [-+]?\d+[\.]?\d*[eE]?[-+]?\d* starting
\* at p0; every piece after \d+ may be empty, so the greedy match never
\* backtracks.  p_k is the position after the k-th piece.
MatchAt(s, p0) ==
    LET p1 == Optional(s, p0, Signs)
        p2 == DigitsEnd(s, p1)
        p3 == Optional(s, p2, {"."})
        p4 == DigitsEnd(s, p3)
        p5 == Optional(s, p4, {"e", "E"})
        p6 == Optional(s, p5, Signs)
        p7 == DigitsEnd(s, p6)
    IN  [p0 |-> p0, p1 |-> p1, p2 |-> p2, p3 |-> p3, p4 |-> p4,
         p5 |-> p5, p6 |-> p6, p7 |-> p7]

\* re.findall(...)[0] exists
HasMatch(s) == MatchStarts(s) # {}

FirstMatch(s) == MatchAt(s, SetMin(MatchStarts(s)))

\* float() accepts the matched text: after the mantissa either nothing, or an
\* exponent letter followed by at least one digit.
FloatAccepts(m) ==
    \/ m.p5 = m.p4 /\ m.p6 = m.p5
    \/ m.p5 > m.p4 /\ m.p7 > m.p6

RECURSIVE DigitsValue(_, _, _)
\* The value of the digits s[a..b-1].
DigitsValue(s, a, b) ==
    IF a >= b THEN 0 ELSE DigitsValue(s, a, b - 1) * 10 + DigitValue(s[b - 1])

RECURSIVE Pow10(_)
Pow10(k) == IF k <= 0 THEN 1 ELSE 10 * Pow10(k - 1)

RECURSIVE GCD(_, _)
GCD(a, b) == IF b = 0 THEN a ELSE GCD(b, a % b)

Abs(n) == IF n < 0 THEN -n ELSE n
Sgn(n) == IF n < 0 THEN -1 ELSE IF n > 0 THEN 1 ELSE 0

\* The number n/d in lowest terms; n/0 is +inf, -inf or nan.
Ratio(n, d) ==
    IF d = 0 THEN <<Sgn(n), 0>>
    ELSE LET g == GCD(Abs(n), Abs(d))
         IN  <<Sgn(d) * (n \div g), Abs(d) \div g>>

\* float() of an accepted match.
FloatValue(s, m) ==
    LET neg      == m.p1 > m.p0 /\ s[m.p0] = "-"
        fracFrom == m.p3
        fracLen  == m.p4 - m.p3
        mant     == DigitsValue(s, m.p1, m.p2) * Pow10(fracLen)
                      + DigitsValue(s, fracFrom, m.p4)
        expNeg   == m.p6 > m.p5 /\ s[m.p5] = "-"
        exp      == DigitsValue(s, m.p6, m.p7)
        num      == (IF neg THEN -mant ELSE mant)
                      * (IF expNeg THEN 1 ELSE Pow10(exp))
        den      == Pow10(fracLen) * (IF expNeg THEN Pow10(exp) ELSE 1)
    IN  Ratio(num, den)

\* ------------------------------------------------------------------------
\* Floating-point arithmetic on numbers <<n, d>>
\* ------------------------------------------------------------------------

NaN  == <<0, 0>>
PInf == <<1, 0>>
NInf == <<-1, 0>>

IsNaN(a)    == a = NaN
IsFinite(a) == a[2] # 0

\* a - b
Sub(a, b) ==
    IF IsNaN(a) \/ IsNaN(b) THEN NaN
    ELSE IF ~IsFinite(a) /\ ~IsFinite(b) THEN (IF a = b THEN NaN ELSE a)
    ELSE IF ~IsFinite(a) THEN a
    ELSE IF ~IsFinite(b) THEN <<-b[1], 0>>
    ELSE Ratio(a[1] * b[2] - b[1] * a[2], a[2] * b[2])

\* a / b; a division by zero is no exception in numpy: it yields inf or nan.
Div(a, b) ==
    IF IsNaN(a) \/ IsNaN(b) THEN NaN
    ELSE IF ~IsFinite(a) /\ ~IsFinite(b) THEN NaN
    ELSE IF ~IsFinite(a) THEN <<(IF b[1] < 0 THEN -a[1] ELSE a[1]), 0>>
    ELSE IF ~IsFinite(b) THEN <<0, 1>>
    ELSE Ratio(a[1] * b[2], a[2] * b[1])

\* a < b; every comparison with nan is false.
Less(a, b) ==
    /\ ~IsNaN(a)
    /\ ~IsNaN(b)
    /\ IF ~IsFinite(a) /\ ~IsFinite(b) THEN a[1] < b[1]
       ELSE a[1] * b[2] < b[1] * a[2]

\* a * 1.1
Times1_1(a) == IF IsFinite(a) THEN Ratio(11 * a[1], 10 * a[2]) ELSE a

Range(arr) == {arr[q] : q \in DOMAIN arr}

\* np.max(arr): nan when arr holds a nan.
ArrayMax(arr) ==
    IF NaN \in Range(arr) THEN NaN
    ELSE CHOOSE x \in Range(arr) : \A y \in Range(arr) : ~Less(x, y)

\* np.min(arr): nan when arr holds a nan.
ArrayMin(arr) ==
    IF NaN \in Range(arr) THEN NaN
    ELSE CHOOSE x \in Range(arr) : \A y \in Range(arr) : ~Less(y, x)

\* (UV - np.min(UV)) / (np.max(UV) - np.min(UV))
MinMaxNormalize(arr) ==
    [q \in DOMAIN arr |->
        Div(Sub(arr[q], ArrayMin(arr)), Sub(ArrayMax(arr), ArrayMin(arr)))]

\* DeltaFOverF with the difference divided by the recording instead of the
\* baseline.
DeltaFOverRaw(raw, ctrl) ==
    [q \in DOMAIN raw |-> Div(Sub(raw[q], ctrl[q]), raw[q])]

\* (raw - control) / control, for arrays of one length
DeltaFOverF(raw, ctrl) ==
    [q \in DOMAIN raw |-> Div(Sub(raw[q], ctrl[q]), ctrl[q])]

\* ------------------------------------------------------------------------
\* The directory the run starts from
\* ------------------------------------------------------------------------

\* mypath, the working directory (a short stand-in for the edited constant).
mypath == <<"/", "w", "/">>

\* A subdirectory of mypath, as os.walk joins it.
SubDir == mypath \o <<"s", "/">>

Ints(seq) == [q \in DOMAIN seq |-> <<seq[q], 1>>]

File(dir, name, column) == [path |-> dir \o name, data |-> Ints(column)]

ControlName  == CONTROL \o <<"_">> \o DT \o <<"1">> \o TXT
ControlName2 == <<"b", "_">> \o ControlName
UVName       == UVTOKEN \o <<"_">> \o DT \o <<"1">> \o TXT
UVName2      == <<"b", "_">> \o UVName
Rec5         == DT \o <<"5", "_">> \o VALUES \o TXT
RecA5        == <<"a", "_">> \o Rec5
RecB5        == <<"b", "_">> \o Rec5
RecA15       == <<"a", "_">> \o DT \o <<"1", ".", "5", "_">> \o VALUES \o TXT
RecA5e       == <<"a", "_">> \o DT \o <<"5", "e">> \o TXT
RecTwice     == <<"x", "_">> \o DT \o <<"1", "_">> \o DT \o <<"2">> \o TXT
HiddenName   == OSX \o RecA5
TaggedName   == NORMALIZED \o <<"a", "_">> \o DT \o <<"5">> \o TXT
NotesName    == <<"n", "o", "t", "e", "s">> \o TXT
Trace5       == <<"5", "_">> \o CSV
TraceX       == <<"x">> \o CSV

\* The files a directory is drawn from: the second column of each text file,
\* or the one column of an older csv file in a subdirectory.
FileUniverse ==
    { File(mypath, ControlName,  <<1, 1, 1, 1>>),
      File(mypath, ControlName,  <<20, 10>>),
      File(mypath, ControlName,  <<2, 0>>),
      File(mypath, ControlName2, <<10, 10>>),
      File(mypath, UVName,       <<0, 5, 10>>),
      File(mypath, UVName,       <<3, 3, 3>>),
      File(mypath, UVName2,      <<0, 2>>),
      File(mypath, Rec5,         <<2, 1, 0, 1>>),
      File(mypath, RecA5,        <<2, 1, 0, 1>>),
      File(mypath, RecA5,        <<40, 8>>),
      File(mypath, RecB5,        <<41, 9>>),
      File(mypath, RecA15,       <<41, 9>>),
      File(mypath, RecA5e,       <<40, 8>>),
      File(mypath, RecTwice,     <<2, 1, 0, 1>>),
      File(mypath, HiddenName,   <<2, 1, 0, 1>>),
      File(mypath, TaggedName,   <<2, 1, 0, 1>>),
      File(mypath, NotesName,    <<2, 1, 0, 1>>),
      File(SubDir, Trace5,       <<7, -3>>),
      File(SubDir, TraceX,       <<7, -3>>) }

\* The directories of at most MaxFiles files, one file per path.
Directories ==
    {S \in SUBSET FileUniverse :
        /\ Cardinality(S) <= MaxFiles
        /\ \A f, g \in S : f.path = g.path => f = g}

DirectoryOf(S) ==
    [p \in {f.path : f \in S} |-> (CHOOSE f \in S : f.path = p).data]

\* The file system after writing data at path p.
WriteFile(files, p, data) ==
    [q \in DOMAIN files \cup {p} |-> IF q = p THEN data ELSE files[q]]

\* listdir(mypath) restricted to plain files: the names directly in mypath.
ListDir(files) ==
    {Slice(p, Len(mypath), Len(p)) :
        p \in {q \in DOMAIN files :
                 /\ SubSeq(q, 1, Len(mypath)) = mypath
                 /\ ~Contains(Slice(q, Len(mypath), Len(q)), <<"/">>)}}

\* os.walk(mypath): every path under mypath whose name ends with .csv.
WalkCsv(files) == {p \in DOMAIN files : EndsWith(p, CSV)}

\* The file a name relative to the working directory refers to.
InCwd(name) == mypath \o name

\* ------------------------------------------------------------------------
\* The pure steps of the script
\* ------------------------------------------------------------------------

\* s[0:2]=="._" in s, a chained comparison: s[0:2]=="._" and "._" in s
OsxBug(s) == Slice(s, 0, 2) = OSX /\ Contains(s, OSX)

\* cafiles after the filters on the names: text files with the dt_ marker that
\* are neither resource forks nor normalized data.
Cafiles(names) ==
    {s \in names :
        /\ Contains(s, TXT)
        /\ Contains(s, DT)
        /\ ~OsxBug(s)
        /\ ~Contains(s, NORMALIZED)}

\* [s for s in cafiles if 'control' in s], and likewise for UV
Matching(names, token) == {s \in names : Contains(s, token)}

\* The orders listdir can give a set of names.
Orders(S) ==
    {o \in [1..Cardinality(S) -> S] : \A a, b \in DOMAIN o : o[a] = o[b] => a = b}

\* output_filename with the extension appended to the whole source name.
output_filename_whole(s) == s \o CSV

\* source_filename[source_filename.rfind('dt_')+3:source_filename.rfind('Values')] + ".csv"
output_filename(s) == Slice(s, RFind(s, DT) + 3, RFind(s, VALUES)) \o CSV

\* source_filename[source_filename.find('_dt'):len(source_filename)]
RateText(s) == Slice(s, Find(s, UDT), Len(s))

\* NormalizerFinished with the loop left at any pass.
NormalizerLeftEarly(remaining) == TRUE

\* The end of the Normalizer's loop: every file of cafiles has been processed.
NormalizerFinished(remaining) == remaining = {}

\* files[(files.rfind('/')+1):]
output_imagename(files) == Slice(files, RFind(files, <<"/">>) + 1, Len(files))

\* output_imagename[:-4] + ".png"
ImageName(name) == Slice(name, 0, -4) \o PNG

\* ------------------------------------------------------------------------
\* State
\* ------------------------------------------------------------------------

VARIABLES
    pc,          \* the part of the script that runs next
    err,         \* the exception that ended the run, and the file it was raised on
    fs,          \* the files under mypath: path -> the numbers in the file
    onlyfiles,   \* the names listdir gave
    cafiles,     \* the names still in the list cafiles
    controlfile, \* the list controlfile, in listdir's order
    control,     \* the control baseline
    UVfile,      \* the list UVfile, in listdir's order
    todo,        \* the names of cafiles the Normalizer's loop has not reached
    written,     \* the traces the Normalizer wrote
    dF_F,        \* the global array dF_F
    csvz,        \* the list csvz, in os.walk's order
    pos,         \* the position of the running loop in csvz
    maxvalue,
    minvalue,
    plots,       \* the calls of drawer that saved an image
    log          \* the file operations of the run, in order

vars == <<pc, err, fs, onlyfiles, cafiles, controlfile, control, UVfile, todo,
          written, dF_F, csvz, pos, maxvalue, minvalue, plots, log>>

NoError == [kind |-> "none", file |-> <<>>]

Raise(kind, file) ==
    /\ pc' = "error"
    /\ err' = [kind |-> kind, file |-> file]

Init ==
    /\ pc = "classify"
    /\ err = NoError
    /\ \E S \in Directories : fs = DirectoryOf(S)
    /\ onlyfiles = {}
    /\ cafiles = {}
    /\ controlfile = <<>>
    /\ control = <<>>
    /\ UVfile = <<>>
    /\ todo = {}
    /\ written = {}
    /\ dF_F = <<>>
    /\ csvz = <<>>
    /\ pos = 1
    /\ maxvalue = <<0, 1>>
    /\ minvalue = <<0, 1>>
    /\ plots = {}
    /\ log = <<>>

\* ------------------------------------------------------------------------
\* The steps of the script
\* ------------------------------------------------------------------------

\* Lines 20-27: list the directory and filter the names.
Classify ==
    /\ pc = "classify"
    /\ onlyfiles' = ListDir(fs)
    /\ cafiles' = Cafiles(ListDir(fs))
    /\ pc' = "control"
    /\ UNCHANGED <<err, fs, controlfile, control, UVfile, todo, written, dF_F,
                   csvz, pos, maxvalue, minvalue, plots, log>>

\* Lines 30-32: controlfile[0] is read; every control file leaves cafiles.
LoadControl ==
    /\ pc = "control"
    /\ \E order \in Orders(Matching(cafiles, CONTROL)) :
          /\ controlfile' = order
          /\ IF order = <<>>
             THEN /\ Raise("IndexError", <<>>)
                  /\ UNCHANGED <<control, cafiles>>
             ELSE /\ control' = fs[InCwd(order[1])]
                  /\ cafiles' = cafiles \ Matching(cafiles, CONTROL)
                  /\ pc' = "uv"
                  /\ err' = err
    /\ UNCHANGED <<fs, onlyfiles, UVfile, todo, written, dF_F, csvz, pos,
                   maxvalue, minvalue, plots, log>>

\* Lines 35-41: UVfile[0] is read, rescaled and saved as UV.csv; every UV file
\* leaves cafiles.
LoadUV ==
    /\ pc = "uv"
    /\ \E order \in Orders(Matching(cafiles, UVTOKEN)) :
          /\ UVfile' = order
          /\ IF order = <<>>
             THEN /\ Raise("IndexError", <<>>)
                  /\ UNCHANGED <<fs, cafiles, todo, log>>
             ELSE /\ fs' = WriteFile(fs, InCwd(UVCSV),
                                     MinMaxNormalize(fs[InCwd(order[1])]))
                  /\ cafiles' = cafiles \ Matching(cafiles, UVTOKEN)
                  /\ todo' = cafiles'
                  /\ log' = Append(log, [op |-> "write", path |-> InCwd(UVCSV)])
                  /\ pc' = "normalize"
                  /\ err' = err
    /\ UNCHANGED <<onlyfiles, controlfile, control, written, dF_F, csvz, pos,
                   maxvalue, minvalue, plots>>

\* Lines 45-53, one pass of the loop: the rate is parsed from the name, the
\* recording is read and normalized, the trace is saved.
NormalizeFile ==
    /\ pc = "normalize"
    /\ \E source_filename \in todo :
          LET text == RateText(source_filename)
              raw  == fs[InCwd(source_filename)]
              out  == InCwd(output_filename(source_filename))
          IN  IF ~HasMatch(text)
              THEN /\ Raise("IndexError", source_filename)
                   /\ UNCHANGED <<fs, todo, written, dF_F, log>>
              ELSE IF ~FloatAccepts(FirstMatch(text))
              THEN /\ Raise("ValueError: float", source_filename)
                   /\ UNCHANGED <<fs, todo, written, dF_F, log>>
              ELSE IF Len(raw) # Len(control)
              THEN /\ Raise("ValueError: shape", source_filename)
                   /\ UNCHANGED <<fs, todo, written, dF_F, log>>
              ELSE /\ dF_F' = DeltaFOverF(raw, control)
                   /\ fs' = WriteFile(fs, out, dF_F')
                   /\ written' = written \cup
                         {[source   |-> source_filename,
                           path     |-> out,
                           timerate |-> FloatValue(text, FirstMatch(text)),
                           data     |-> dF_F']}
                   /\ todo' = todo \ {source_filename}
                   /\ log' = Append(log, [op |-> "write", path |-> out])
                   /\ UNCHANGED <<pc, err>>
    /\ UNCHANGED <<onlyfiles, cafiles, controlfile, control, UVfile, csvz, pos,
                   maxvalue, minvalue, plots>>

\* Line 56: after the loop, os.walk lists the csv files under mypath.
Walk ==
    /\ pc = "normalize"
    /\ NormalizerFinished(todo)
    /\ \E order \in Orders(WalkCsv(fs)) : csvz' = order
    /\ pos' = 1
    /\ pc' = "scan"
    /\ UNCHANGED <<err, fs, onlyfiles, cafiles, controlfile, control, UVfile,
                   todo, written, dF_F, maxvalue, minvalue, plots, log>>

\* Lines 57-61, one pass of the loop: a csv file is read and maxvalue follows.
ScanFile ==
    /\ pc = "scan"
    /\ pos <= Len(csvz)
    /\ dF_F' = fs[csvz[pos]]
    /\ maxvalue' = IF Less(maxvalue, ArrayMax(dF_F'))
                   THEN Times1_1(ArrayMax(dF_F'))
                   ELSE maxvalue
    /\ pos' = pos + 1
    /\ log' = Append(log, [op |-> "scan", path |-> csvz[pos]])
    /\ UNCHANGED <<pc, err, fs, onlyfiles, cafiles, controlfile, control,
                   UVfile, todo, written, csvz, minvalue, plots>>

\* Lines 62-63, after the loop: minvalue follows the array read last.
UpdateMinimum ==
    /\ pc = "scan"
    /\ pos > Len(csvz)
    /\ minvalue' = IF Less(ArrayMin(dF_F), minvalue)
                   THEN ArrayMin(dF_F)
                   ELSE minvalue
    /\ pos' = 1
    /\ pc' = "plot"
    /\ log' = Append(log, [op |-> "minimum", path |-> <<>>])
    /\ UNCHANGED <<err, fs, onlyfiles, cafiles, controlfile, control, UVfile,
                   todo, written, dF_F, csvz, maxvalue, plots>>

\* Lines 112-113 and drawer, one call: the file of that name in the working
\* directory is read and its image is saved in the working directory.  What
\* plt.ylim does with a limit that is not finite depends on the matplotlib at
\* hand: it raises ValueError or goes on.
Plot ==
    /\ pc = "plot"
    /\ pos <= Len(csvz)
    /\ LET files  == csvz[pos]
           loaded == InCwd(output_imagename(files))
           image  == InCwd(ImageName(output_imagename(files)))
       IN  IF loaded \notin DOMAIN fs
           THEN /\ Raise("IOError", files)
                /\ UNCHANGED <<fs, plots, pos, log>>
           ELSE \E strict \in IF IsFinite(minvalue) /\ IsFinite(maxvalue)
                              THEN {FALSE} ELSE BOOLEAN :
                  IF strict
                  THEN /\ Raise("ValueError: ylim", files)
                       /\ UNCHANGED <<fs, plots, pos, log>>
                  ELSE /\ fs' = WriteFile(fs, image, fs[loaded])
                       /\ plots' = plots \cup
                             {[files  |-> files,
                               loaded |-> loaded,
                               image  |-> image,
                               ylim   |-> <<minvalue, maxvalue>>]}
                       /\ pos' = pos + 1
                       /\ log' = Append(log, [op |-> "plot", path |-> files])
                       /\ UNCHANGED <<pc, err>>
    /\ UNCHANGED <<onlyfiles, cafiles, controlfile, control, UVfile, todo,
                   written, dF_F, csvz, maxvalue, minvalue>>

\* The end of the script.
Finish ==
    /\ pc = "plot"
    /\ pos > Len(csvz)
    /\ pc' = "done"
    /\ UNCHANGED <<err, fs, onlyfiles, cafiles, controlfile, control, UVfile,
                   todo, written, dF_F, csvz, pos, maxvalue, minvalue, plots, log>>

Next ==
    \/ Classify
    \/ LoadControl
    \/ LoadUV
    \/ NormalizeFile
    \/ Walk
    \/ ScanFile
    \/ UpdateMinimum
    \/ Plot
    \/ Finish

Spec == Init /\ [][Next]_vars

\* ------------------------------------------------------------------------
\* Properties
\* ------------------------------------------------------------------------

Values(files, paths) == UNION {Range(files[p]) : p \in paths}

\* The name carries a decimal number right after a dt_ marker: the text after
\* the marker starts with a match of the rate's pattern that float() accepts.
DecimalAfterMarker(s) ==
    \E k \in Occurrences(s, DT) :
        LET rest == Slice(s, k + 3, Len(s))
        IN  1 \in MatchStarts(rest) /\ FloatAccepts(MatchAt(rest, 1))

\* C1: a recording the classifier accepted whose name carries a decimal number
\* after its dt_ marker never makes the Normalizer fail at parsing the rate.
C1_RateIsParsed ==
    (pc = "error" /\ err.kind \in {"IndexError", "ValueError: float"}
                  /\ err.file # <<>>)
        => ~DecimalAfterMarker(err.file)

\* C2: every trace the Normalizer wrote has the length of its recording R and,
\* when the control file C that was read holds no zero, its element q is
\* (R[q] - C[q]) / C[q].
C2_TraceIsDeltaFOverF ==
    \A w \in written :
        LET R == fs[InCwd(w.source)]
            C == fs[InCwd(controlfile[1])]
        IN  /\ control = C
            /\ Len(w.data) = Len(R)
            /\ (\A q \in DOMAIN C : C[q][1] # 0) =>
                  \A q \in DOMAIN R :
                     /\ w.data[q][2] > 0
                     /\ w.data[q][1] * C[q][1]
                           = w.data[q][2] * (R[q][1] - C[q][1])

C2_Witness ==
    \E w \in written :
        /\ w.data = Ints(<<1, 0, -1, 0>>)
        /\ control = Ints(<<1, 1, 1, 1>>)

RangeScanned == pc \in {"plot", "done"}

\* The scanned files are the finite outputs of this run: UV.csv and the traces.
ScannedFinite ==
    /\ Range(csvz) \subseteq {InCwd(UVCSV)} \cup {w.path : w \in written}
    /\ \A v \in Values(fs, Range(csvz)) : IsFinite(v)

Largest(S)  == CHOOSE x \in S : \A y \in S : ~Less(x, y)
Smallest(S) == CHOOSE x \in S : \A y \in S : ~Less(y, x)

Zero == <<0, 1>>

\* C3: when the Range Scanner has finished, maxvalue is 1.1 times the largest
\* value of the scanned files when that value is above 0, and 0 otherwise,
\* whatever the order of the scan.
C3_BatchMaximum ==
    (RangeScanned /\ ScannedFinite) =>
        LET top == Largest(Values(fs, Range(csvz)))
        IN  maxvalue = IF Less(Zero, top) THEN Times1_1(top) ELSE Zero

\* C4: when the Range Scanner has finished, minvalue is the smallest value of
\* the scanned files when that value is below 0, and 0 otherwise, whatever the
\* order of the scan.
C4_BatchMinimum ==
    (RangeScanned /\ ScannedFinite) =>
        LET bottom == Smallest(Values(fs, Range(csvz)))
        IN  minvalue = IF Less(bottom, Zero) THEN bottom ELSE Zero

\* C5: once the UV file has been read, a constant UV sequence has ended the
\* run in an error and left no UV.csv holding nan; any other UV sequence has
\* given a UV.csv with minimum 0 and maximum 1.
C5_ConstantUVIsAnError ==
    UVfile # <<>> =>
        LET UV == fs[InCwd(UVfile[1])]
        IN  IF ArrayMin(UV) = ArrayMax(UV)
            THEN /\ pc = "error"
                 /\ InCwd(UVCSV) \in DOMAIN fs => NaN \notin Range(fs[InCwd(UVCSV)])
            ELSE /\ ArrayMin(fs[InCwd(UVCSV)]) = Zero
                 /\ ArrayMax(fs[InCwd(UVCSV)]) = <<1, 1>>

\* C6: the run goes on past the control file only when exactly one name matched
\* control, and past the UV file only when exactly one name matched UV.
C6_ExactlyOneControlAndUV ==
    /\ pc \notin {"classify", "control", "error"} => Len(controlfile) = 1
    /\ pc \notin {"classify", "control", "uv", "error"} => Len(UVfile) = 1

\* C7: after the Normalizer there is one trace file per recording: distinct
\* recordings were written to distinct output files.
C7_OneTracePerRecording ==
    RangeScanned =>
        /\ Cardinality({w.path : w \in written}) = Cardinality(cafiles)
        /\ \A v, w \in written : v.source # w.source => v.path # w.path

Ops(op) == {a \in DOMAIN log : log[a].op = op}

\* C8: every trace of the batch is written before the first csv file is
\* scanned; every csv file is scanned and minvalue is updated before the first
\* plot; every plot was drawn with the minvalue and maxvalue the run ends with.
C8_PhasesInOrder ==
    /\ \A a \in Ops("scan") : \A b \in Ops("write") : b < a
    /\ Ops("scan") # {} => \A s \in cafiles : \E w \in written : w.source = s
    /\ \A a \in Ops("plot") : \A b \in Ops("scan") \cup Ops("minimum") : b < a
    /\ Ops("plot") # {} =>
          /\ Ops("minimum") # {}
          /\ \A p \in Range(csvz) : \E a \in Ops("scan") : log[a].path = p
    /\ \A p \in plots : p.ylim = <<minvalue, maxvalue>>

C8_Witness ==
    /\ pc = "done"
    /\ Cardinality(plots) >= 3
    /\ Cardinality(written) >= 2
    /\ minvalue # Zero

\* C9: every csv file the scan found is plotted from its own data, and its
\* image is saved next to it under the name with .png for .csv.
C9_PlotNextToTrace ==
    /\ \A p \in plots :
          /\ p.loaded = p.files
          /\ p.image = Slice(p.files, 0, -4) \o PNG
    /\ ~(pc = "error" /\ err.kind = "IOError")
    /\ pc = "done" => \A f \in Range(csvz) : \E p \in plots : p.files = f

====
